---- MODULE Spec2Model ----
\* A model of tools/freeze_requirements.py: main() seeds the output
\* directory, submits pip-compile jobs to a ThreadPoolExecutor of three
\* workers, and check_futures() aggregates their results stage by stage.
EXTENDS Integers, Sequences, FiniteSets, TLC

\* ---------------------------------------------------------------- bounds
\* The external tool exits with a code in 0..MaxExit.
MaxExit == 2

\* The (stdout, stderr) pairs a failing tool invocation may leave behind.
Captures == { <<"", "ERROR: no matching distribution">>, <<"resolving", "">> }

\* ------------------------------------------------------------ the inputs
None == "None"

\* abspath(gitroot())
base_path == "/repo"

\* The values of the repo argument that are tried.
Repos == {"getsentry", "sentry"}

\* The values of the outdir argument that are tried.
Outdirs == {None, base_path, "/out"}

\* f"{dir}/{name}"
Path(dir, name) == dir \o "/" \o name

\* lockfiles with the dev-only entry forgotten
lockfiles_m == <<"requirements-frozen.txt", "requirements-dev-frozen.txt">>

\* the tuple the seeding loop iterates over
lockfiles ==
    << "requirements-frozen.txt",
       "requirements-dev-frozen.txt",
       "requirements-dev-only-frozen.txt" >>

Range(s) == { s[i] : i \in DOMAIN s }

InputNames ==
    { "requirements-base.txt", "requirements-dev.txt",
      "sentry-requirements-frozen.txt", "sentry-requirements-dev-frozen.txt" }

\* The lock files the jobs write.
LockNames ==
    { "requirements-frozen.txt", "requirements-dev-frozen.txt",
      "requirements-dev-only-frozen.txt" }

Names == LockNames \cup InputNames

Dirs == {base_path, "/out"}

Paths == { Path(d, n) : d \in Dirs, n \in Names }

\* A file that does not exist, and a file holding the byte chunks data.
NoFile == [exists |-> FALSE, data |-> <<>>]
File(data) == [exists |-> TRUE, data |-> data]

base_cmd ==
    <<"pip-compile", "--no-header", "--no-annotate", "--allow-unsafe", "-q">>

max_workers == 3

\* the header bytes worker writes before the content (backquotes left out)
HEADER == "# DO NOT MODIFY. This file was generated with make freeze-requirements.\n\n"

\* repo == "getsentry"
IS_GETSENTRY(r) == r = "getsentry"

\* ------------------------------------------------------------- the jobs
\* The argument tuple of one job: base_cmd, the inputs, "-o", the output.
Cmd(inputs, out) == base_cmd \o inputs \o <<"-o", out>>

\* Stage1Args with the dev-only job submitted in every mode
Stage1Args_m(r, od) ==
    << Cmd(<<Path(base_path, "requirements-base.txt")>>,
           Path(od, "requirements-frozen.txt")),
       Cmd(<<Path(base_path, "requirements-base.txt"),
             Path(base_path, "requirements-dev.txt")>>,
           Path(od, "requirements-dev-frozen.txt")),
       Cmd(<<Path(base_path, "requirements-dev.txt")>>,
           Path(od, "requirements-dev-only-frozen.txt")) >>

\* The jobs main submits first, in submission order.
Stage1Args(r, od) ==
    << Cmd(<<Path(base_path, "requirements-base.txt")>>,
           Path(od, "requirements-frozen.txt")),
       Cmd(<<Path(base_path, "requirements-base.txt"),
             Path(base_path, "requirements-dev.txt")>>,
           Path(od, "requirements-dev-frozen.txt")) >>
    \o (IF ~IS_GETSENTRY(r)
        THEN << Cmd(<<Path(base_path, "requirements-dev.txt")>>,
                    Path(od, "requirements-dev-only-frozen.txt")) >>
        ELSE << >>)

\* Stage2Args with the override of the dev job put before its inputs
Stage2Args_m(od) ==
    << Cmd(<<Path(base_path, "requirements-base.txt"),
             Path(base_path, "sentry-requirements-frozen.txt")>>,
           Path(od, "requirements-frozen.txt")),
       Cmd(<<Path(base_path, "sentry-requirements-dev-frozen.txt"),
             Path(base_path, "requirements-base.txt"),
             Path(base_path, "requirements-dev.txt")>>,
           Path(od, "requirements-dev-frozen.txt")) >>

\* The jobs main submits after a successful first stage of getsentry.
Stage2Args(od) ==
    << Cmd(<<Path(base_path, "requirements-base.txt"),
             Path(base_path, "sentry-requirements-frozen.txt")>>,
           Path(od, "requirements-frozen.txt")),
       Cmd(<<Path(base_path, "requirements-base.txt"),
             Path(base_path, "requirements-dev.txt"),
             Path(base_path, "sentry-requirements-dev-frozen.txt")>>,
           Path(od, "requirements-dev-frozen.txt")) >>

\* dest = args[-1]
Dest(args) == args[Len(args)]

\* The input files of a command: the tokens between base_cmd and "-o".
Inputs(args) == SubSeq(args, Len(base_cmd) + 1, Len(args) - 2)

\* What the external tool writes to its -o file when it exits 0: the pins
\* resolved from its input files (one chunk per input, in order).
ToolOutput(args) == [ i \in DOMAIN Inputs(args) |-> "pins of " \o Inputs(args)[i] ]

\* ------------------------------------------------------------ the state
VARIABLES
    repo,       \* main's repo argument
    arg_outdir, \* main's outdir argument (None when omitted)
    outdir,     \* main's local outdir
    pc,         \* where main is
    li,         \* index of the seeding loop in lockfiles
    fs,         \* the file system: path -> file
    fs0,        \* the file system main was started on
    work,       \* the work items submitted to the executor, in order
    futures,    \* the tuple check_futures iterates over (indices of work)
    fi,         \* index of the check_futures loop in futures
    rc,         \* check_futures' rc
    ret,        \* <<v>> once main returned v, else <<>>
    exc,        \* the exception that escaped main, else None
    printed,    \* the reports printed so far, in order
    waited,     \* the futures whose result() has returned or raised
    shut        \* executor.shutdown() has returned

vars == << repo, arg_outdir, outdir, pc, li, fs, fs0, work, futures, fi, rc, ret,
           exc, printed, waited, shut >>

\* ------------------------------------------------------- initial states
\* The lock files under base_path may or may not exist yet; the input
\* requirement files do; the other directory is empty or holds stale files.
InitialFiles ==
    { [ p \in Paths |->
          IF p \in { Path(base_path, n) : n \in present \cup InputNames }
          THEN File(<<"old pins">>)
          ELSE IF stale /\ p \in { Path("/out", n) : n \in Names }
          THEN File(<<"stale pins">>)
          ELSE NoFile ] :
        present \in SUBSET LockNames, stale \in BOOLEAN }

Init ==
    /\ repo \in Repos
    /\ arg_outdir \in Outdirs
    /\ outdir = arg_outdir
    /\ pc = "seed"
    /\ li = 1
    /\ fs \in InitialFiles
    /\ fs0 = fs
    /\ work = << >>
    /\ futures = << >>
    /\ fi = 1
    /\ rc = 0
    /\ ret = << >>
    /\ exc = None
    /\ printed = << >>
    /\ waited = {}
    /\ shut = FALSE

\* ------------------------------------------------------------- seeding
\* CopyFile that passes over a missing source instead of raising
CopyFile_m(f, src, dst) ==
    IF ~f[src].exists THEN [error |-> None, fs |-> f]
    ELSE IF src = dst THEN [error |-> "SameFileError", fs |-> f]
    ELSE [error |-> None, fs |-> [f EXCEPT ![dst] = f[src]]]

\* shutil.copyfile(src, dst): the error it raises (None when it returns)
\* and the file system it leaves.
CopyFile(f, src, dst) ==
    IF ~f[src].exists THEN [error |-> "FileNotFoundError", fs |-> f]
    ELSE IF src = dst THEN [error |-> "SameFileError", fs |-> f]
    ELSE [error |-> None, fs |-> [f EXCEPT ![dst] = f[src]]]

\* the test of line 59, negated: the else branch (the seeding loop) runs
OutdirGiven(od) == od # None

\* if outdir is None: outdir = base_path
DefaultOutdir ==
    /\ pc = "seed"
    /\ ~OutdirGiven(arg_outdir)
    /\ outdir' = base_path
    /\ pc' = "submit1"
    /\ UNCHANGED << repo, arg_outdir, fs0, li, fs, work, futures, fi, rc, ret, exc,
                    printed, waited, shut >>

\* one iteration of the loop over lockfiles: copyfile, which may raise
SeedCopy ==
    /\ pc = "seed"
    /\ OutdirGiven(arg_outdir)
    /\ li <= Len(lockfiles)
    /\ LET r == CopyFile(fs, Path(base_path, lockfiles[li]),
                             Path(outdir, lockfiles[li]))
       IN  IF r.error # None
           THEN /\ exc' = r.error
                /\ pc' = "Raised"
                /\ UNCHANGED << li, fs >>
           ELSE /\ fs' = r.fs
                /\ li' = li + 1
                /\ pc' = IF li = Len(lockfiles) THEN "submit1" ELSE "seed"
                /\ exc' = exc
    /\ UNCHANGED << repo, arg_outdir, fs0, outdir, work, futures, fi, rc, ret,
                    printed, waited, shut >>

\* ---------------------------------------------------------- submitting
\* The work item executor.submit(worker, args) puts on the queue; runs
\* counts the calls of run() for it, results the calls of result() on its
\* future that came back, finished is its rank in the order of completion.
WorkItem(args, stage) ==
    [ args |-> args, stage |-> stage, st |-> "queued", returncode |-> 0,
      stdout |-> "", stderr |-> "", error |-> None,
      open_tried |-> FALSE, stamped |-> FALSE,
      runs |-> 0, results |-> 0, finished |-> 0 ]

\* The jobs of the stage main is submitting.
StageArgs == IF pc = "submit1" THEN Stage1Args(repo, outdir) ELSE Stage2Args(outdir)

\* one executor.submit(worker, ...) of main; after the last one of the
\* stage, check_futures is entered (rc = 0)
Submit ==
    /\ pc \in {"submit1", "submit2"}
    /\ LET k == Len(futures) + 1
       IN  /\ work' = Append(work, WorkItem(StageArgs[k], IF pc = "submit1" THEN 1 ELSE 2))
           /\ futures' = Append(futures, Len(work) + 1)
           /\ pc' = IF k < Len(StageArgs) THEN pc
                    ELSE IF pc = "submit1" THEN "check1" ELSE "check2"
    /\ fi' = 1
    /\ rc' = 0
    /\ UNCHANGED << repo, arg_outdir, fs0, outdir, li, fs, ret, exc, printed,
                    waited, shut >>

\* ------------------------------------------------------ the worker pool
\* The work items a worker thread is executing: run() or the stamping.
Executing == { i \in DOMAIN work : work[i].st \in {"running", "stamping"} }

\* The rank in the order of completion of the work item that finishes now.
Rank == 1 + Cardinality({ j \in DOMAIN work : work[j].st = "done" })

\* SlotFree of a pool whose threads never come back for more work
SlotFree_m == Cardinality({ i \in DOMAIN work : work[i].st # "queued" }) < max_workers

\* A thread of the pool is free to take the next work item.
SlotFree == Cardinality(Executing) < max_workers

\* a worker thread takes the oldest queued work item
Start(i) ==
    /\ work[i].st = "queued"
    /\ \A k \in 1..(i - 1) : work[k].st # "queued"
    /\ SlotFree
    /\ work' = [work EXCEPT ![i].st = "running"]
    /\ UNCHANGED << repo, arg_outdir, fs0, outdir, pc, li, fs, futures, fi, rc,
                    ret, exc, printed, waited, shut >>

\* RunRaises of a worker that swallows the CalledProcessError
RunRaises_m(code) == FALSE

\* run(args, check=True, ...) raises CalledProcessError; worker re-raises
RunRaises(code) == code # 0

\* run(args, check=True, capture_output=True) returns or raises in worker
ToolExit(i) ==
    /\ work[i].st = "running"
    /\ \E code \in 0..MaxExit, cap \in Captures :
          IF RunRaises(code)
          THEN /\ work' = [work EXCEPT ![i].st = "done",
                                       ![i].runs = @ + 1,
                                       ![i].finished = Rank,
                                       ![i].error = "CalledProcessError",
                                       ![i].returncode = code,
                                       ![i].stdout = cap[1],
                                       ![i].stderr = cap[2]]
               /\ fs' = fs
          ELSE /\ cap = CHOOSE c \in Captures : TRUE
               /\ work' = [work EXCEPT ![i].st = "stamping",
                                       ![i].runs = @ + 1,
                                       ![i].returncode = code]
               /\ fs' = IF code = 0
                        THEN [fs EXCEPT ![Dest(work[i].args)] =
                                           File(ToolOutput(work[i].args))]
                        ELSE fs
    /\ UNCHANGED << repo, arg_outdir, fs0, outdir, pc, li, futures, fi, rc, ret,
                    exc, printed, waited, shut >>

\* Stamped of a worker that writes the header after the content
Stamped_m(file) == File(file.data \o <<HEADER>>)

\* f.read(); f.seek(0, 0); f.write(header + content)
Stamped(file) == File(<<HEADER>> \o file.data)

\* with open(dest, "rb+") as f: ... ; open may raise OSError
Stamp(i) ==
    /\ work[i].st = "stamping"
    /\ LET dest == Dest(work[i].args)
       IN  \E ok \in BOOLEAN :
              IF ok /\ fs[dest].exists
              THEN /\ fs' = [fs EXCEPT ![dest] = Stamped(fs[dest])]
                   /\ work' = [work EXCEPT ![i].st = "done",
                                           ![i].finished = Rank,
                                           ![i].open_tried = TRUE,
                                           ![i].stamped = TRUE]
              ELSE /\ fs' = fs
                   /\ work' = [work EXCEPT ![i].st = "done",
                                           ![i].finished = Rank,
                                           ![i].open_tried = TRUE,
                                           ![i].error = "OSError"]
    /\ UNCHANGED << repo, arg_outdir, fs0, outdir, pc, li, futures, fi, rc, ret,
                    exc, printed, waited, shut >>

\* -------------------------------------------------------- check_futures
\* the text print() writes for a CalledProcessError
Report(w) ==
    [ cmd |-> w.args, returncode |-> w.returncode,
      stdout |-> w.stdout, stderr |-> w.stderr ]

\* RcOnFailure of an except clause that leaves rc as it was
RcOnFailure_m(r) == r

\* rc = 1, in the except clause: the new value of rc
RcOnFailure(r) == 1

\* except CalledProcessError as e
Caught(error) == error = "CalledProcessError"

\* Resolved of a result() that does not block
Resolved_m(w) == TRUE

\* future.result() comes back only once the work item has finished
Resolved(w) == w.st = "done"

\* Awaited of a loop that goes through the futures backwards
Awaited_m(futs, k) == futs[Len(futs) + 1 - k]

\* for future in futures: the future of the k-th iteration
Awaited(futs, k) == futs[k]

\* one iteration of the loop of check_futures: future.result() blocks
\* until the work item is done, then returns or raises its exception
Result ==
    /\ pc \in {"check1", "check2"}
    /\ fi <= Len(futures)
    /\ LET f == Awaited(futures, fi)
           w == work[f]
       IN  /\ Resolved(w)
           /\ waited' = waited \cup {f}
           /\ work' = [work EXCEPT ![f].results = @ + 1]
           /\ IF w.error = None
              THEN /\ fi' = fi + 1
                   /\ UNCHANGED << rc, printed, exc, pc >>
              ELSE IF Caught(w.error)
              THEN /\ rc' = RcOnFailure(rc)
                   /\ printed' = Append(printed, Report(w))
                   /\ fi' = fi + 1
                   /\ UNCHANGED << exc, pc >>
              ELSE /\ exc' = w.error
                   /\ pc' = "Raised"
                   /\ UNCHANGED << rc, printed, fi >>
    /\ UNCHANGED << repo, arg_outdir, fs0, outdir, li, fs, futures, ret, shut >>

\* StageFailed of a main that never takes the early return
StageFailed_m(r) == FALSE

\* if rc != 0
StageFailed(r) == r # 0

\* check_futures returns rc to main, which decides what comes next
CheckReturn ==
    /\ pc \in {"check1", "check2"}
    /\ fi > Len(futures)
    /\ IF pc = "check1"
       THEN IF StageFailed(rc)
            THEN pc' = "shutdown_abort" /\ futures' = futures
            ELSE IF IS_GETSENTRY(repo)
            THEN pc' = "submit2" /\ futures' = << >>
            ELSE pc' = "shutdown" /\ futures' = futures
       ELSE pc' = "shutdown" /\ futures' = futures
    /\ UNCHANGED << repo, arg_outdir, fs0, outdir, li, fs, work, fi, rc, ret, exc,
                    printed, waited, shut >>

\* executor.shutdown() waits for every pending work item
Shutdown ==
    /\ pc \in {"shutdown_abort", "shutdown"}
    /\ \A i \in DOMAIN work : work[i].st = "done"
    /\ shut' = TRUE
    /\ pc' = IF pc = "shutdown_abort" THEN "return_abort" ELSE "return"
    /\ UNCHANGED << repo, arg_outdir, fs0, outdir, li, fs, work, futures, fi, rc,
                    ret, exc, printed, waited >>

\* return rc
Return ==
    /\ pc \in {"return_abort", "return"}
    /\ ret' = <<rc>>
    /\ pc' = IF pc = "return_abort" THEN "Aborted" ELSE "Done"
    /\ UNCHANGED << repo, arg_outdir, fs0, outdir, li, fs, work, futures, fi, rc,
                    exc, printed, waited, shut >>

\* ------------------------------------------------------------ the system
Next ==
    \/ DefaultOutdir
    \/ SeedCopy
    \/ Submit
    \/ \E i \in DOMAIN work : Start(i)
    \/ \E i \in DOMAIN work : ToolExit(i)
    \/ \E i \in DOMAIN work : Stamp(i)
    \/ Result
    \/ CheckReturn
    \/ Shutdown
    \/ Return

Spec == Init /\ [][Next]_vars

\* ------------------------------------------------------------ vocabulary
\* main has finished: by the return of line 155 (Done), by the return of
\* line 123 (Aborted), or by an exception that escaped it (Raised).
Ended == pc \in {"Done", "Aborted", "Raised"}

\* raise SystemExit(main(...)): the status of a run once main has finished
\* is the value main returned, or 1 when an exception escaped main (the
\* exit status of a Python process that dies of an uncaught exception).
ExitStatus == IF pc = "Raised" THEN 1 ELSE ret[1]

IsGetsentry == IS_GETSENTRY(repo)

\* The work item has resolved with an exception.
JobFailed(i) == work[i].st = "done" /\ work[i].error # None

\* The work item has resolved without one: tool exit 0 and file stamped.
JobOk(i) == work[i].st = "done" /\ work[i].error = None

StageItems(n) == { i \in DOMAIN work : work[i].stage = n }

C4_StampIffToolSucceeded ==
    \A i \in DOMAIN work :
       /\ (work[i].open_tried \/ work[i].stamped) =>
              (work[i].returncode = 0 /\ work[i].error # "CalledProcessError")
       /\ work[i].st = "stamping" => work[i].returncode = 0
       /\ work[i].st = "done" =>
              /\ work[i].open_tried <=> work[i].returncode = 0
              /\ work[i].returncode # 0 =>
                    (~work[i].stamped /\ work[i].error = "CalledProcessError")

\* a stage in which one job exited nonzero (not opened) and another
\* exited 0 and was stamped
C4_Witness ==
    \E i, j \in DOMAIN work :
       /\ work[i].st = "done" /\ work[i].returncode # 0 /\ ~work[i].open_tried
       /\ work[j].st = "done" /\ work[j].returncode = 0 /\ work[j].stamped

\* -------------------------------------------------------------------- C5
\* check_futures has finished with the futures of stage n, by returning
\* or by raising.
StageOver(n) ==
    IF n = 1
    THEN work # << >> /\ pc \notin {"seed", "submit1", "check1"}
    ELSE StageItems(2) # {} /\ pc \in {"shutdown", "return", "Done", "Raised"}

\* The number of printed reports that are the report of work item i.
Reports(i) ==
    Cardinality({ k \in DOMAIN printed : printed[k] = Report(work[i]) })

\* C5: when check_futures has finished with a stage, it has waited on every
\* future of the stage, and it has printed exactly one report for every
\* job of the stage that failed with CalledProcessError (none for the
\* others).
C5_NoShortCircuit ==
    \A n \in {1, 2} :
       StageOver(n) =>
          \A i \in StageItems(n) :
             /\ i \in waited
             /\ Reports(i) = IF work[i].error = "CalledProcessError" THEN 1 ELSE 0

\* -------------------------------------------------------------------- C6
\* C6: when main has finished and a job whose tool exited 0 could not be
\* opened for stamping, check_futures went on to every other future of
\* that stage, main returned 1, and no stage-2 job followed a stage-1 job
\* that failed so.
C6_StampErrorIsToolFailure ==
    \A i \in DOMAIN work :
       (Ended /\ work[i].error = "OSError" /\ i \in waited)
       => /\ ret = <<1>>
          /\ StageItems(work[i].stage) \subseteq waited
          /\ work[i].stage = 1 => StageItems(2) = {}

\* -------------------------------------------------------------------- C7
\* C7: when the effective output path equals base_path (outdir omitted, or
\* given and equal to base_path) no copy is attempted and the run does not
\* end before stage 1; when it differs, the run reaches stage 1 only with
\* the three copies performed.
C7_SeederIffPathsDiffer ==
    /\ arg_outdir \in {None, base_path} =>
          /\ li = 1
          /\ ~(pc = "Raised" /\ work = << >>)
          /\ fs0 = fs \/ work # << >>
    /\ arg_outdir \notin {None, base_path} =>
          (pc \notin {"seed", "Raised"} => li = Len(lockfiles) + 1)

\* -------------------------------------------------------------------- C8
\* A lock file the seeding needs is missing under base_path.
SeedSourceMissing ==
    \E n \in { "requirements-frozen.txt", "requirements-dev-frozen.txt",
               "requirements-dev-only-frozen.txt" } :
       ~fs[Path(base_path, n)].exists

\* C8: a job is in the pool only after the seeding is over (skipped, or all
\* three copies made); and a run that seeds with a source lock file missing
\* never submits a job, never invokes the tool, and can only end by the
\* exception copyfile raised escaping main, a nonzero status.
C8_SeedBeforeSubmit ==
    /\ work # << >> =>
          \/ arg_outdir = None
          \/ /\ li = 4
             /\ \A n \in { "requirements-frozen.txt",
                           "requirements-dev-frozen.txt",
                           "requirements-dev-only-frozen.txt" } :
                   fs0[Path(base_path, n)].exists
    /\ (arg_outdir # None /\ SeedSourceMissing) =>
          /\ work = << >>
          /\ pc \in {"seed", "Raised"}
          /\ Ended => (exc \in {"FileNotFoundError", "SameFileError"}
                        /\ ret = << >> /\ ExitStatus # 0)

\* a run to a separate directory whose second source lock file is missing:
\* it copied the first and ended by FileNotFoundError, no job submitted
C8_Witness ==
    /\ arg_outdir = "/out"
    /\ pc = "Raised"
    /\ exc = "FileNotFoundError"
    /\ li = 2
    /\ work = << >>

\* -------------------------------------------------------------------- C9
\* The three lock files the seeding is to copy.
SeededNames ==
    { "requirements-frozen.txt", "requirements-dev-frozen.txt",
      "requirements-dev-only-frozen.txt" }

\* The seeding loop of a run is in progress, has failed, or has just been
\* completed (no job submitted yet).
SeedingOnly == arg_outdir # None /\ work = << >>

StageOutputs(n) ==
    LET idx == { i \in DOMAIN work : work[i].stage = n }
        first == IF n = 1 THEN 0 ELSE Cardinality(StageItems(1))
    IN  [ k \in 1..Cardinality(idx) |-> Dest(work[first + k].args) ]

\* main is past the submissions of stage 1.
PastSubmit1 == work # << >> /\ pc \notin {"seed", "submit1"}

\* main is past the submissions of stage 2.
PastSubmit2 == pc \in {"check2", "shutdown", "return", "Done"} /\ IsGetsentry

\* C10: in the plain mode exactly three jobs are submitted, all in stage 1
\* (base, dev, dev-only) and none in stage 2; in the getsentry mode exactly
\* two in stage 1 and, once stage 1 has succeeded, exactly two more in
\* stage 2 on the same outputs, never a dev-only job; a getsentry run is
\* Done only after all four.
C10_JobsFixedByRunMode ==
    /\ ~IsGetsentry =>
          /\ StageItems(2) = {}
          /\ pc \notin {"submit2", "check2"}
          /\ Len(work) <= 3
          /\ PastSubmit1 =>
                StageOutputs(1) = << Path(outdir, "requirements-frozen.txt"),
                                     Path(outdir, "requirements-dev-frozen.txt"),
                                     Path(outdir, "requirements-dev-only-frozen.txt") >>
    /\ IsGetsentry =>
          /\ Len(work) <= 4
          /\ \A i \in DOMAIN work :
                Dest(work[i].args) # Path(outdir, "requirements-dev-only-frozen.txt")
          /\ PastSubmit1 =>
                StageOutputs(1) = << Path(outdir, "requirements-frozen.txt"),
                                     Path(outdir, "requirements-dev-frozen.txt") >>
          /\ StageItems(2) # {} => \A i \in StageItems(1) : JobOk(i)
          /\ PastSubmit2 =>
                StageOutputs(2) = << Path(outdir, "requirements-frozen.txt"),
                                     Path(outdir, "requirements-dev-frozen.txt") >>
          /\ (pc \in {"shutdown", "return", "Done"}) => Len(work) = 4

\* a getsentry run that is Done with its four jobs
C10_Witness ==
    /\ IsGetsentry
    /\ pc = "Done"
    /\ Len(work) = 4
    /\ Cardinality(StageItems(2)) = 2

\* ------------------------------------------------------------------- C11
\* The last work item submitted with output path p (0 when there is none).
LastJobOn(p) ==
    LET on == { i \in DOMAIN work : Dest(work[i].args) = p }
    IN  IF on = {} THEN 0 ELSE CHOOSE i \in on : \A j \in on : j <= i

\* The number of chunks of data that are the header.
Headers(data) == Cardinality({ k \in DOMAIN data : data[k] = HEADER })

\* C11: once main has returned 0, every path some job wrote to holds the
\* header followed by exactly what the tool wrote in the last job on that
\* path, with the header once; in the getsentry mode that job is the one of
\* stage 2, and what stage 1 left in the file is gone.
C11_FinalContent ==
    (pc = "Done" /\ ret = <<0>>) =>
       \A p \in Paths :
          LastJobOn(p) # 0 =>
             LET last == work[LastJobOn(p)]
             IN  /\ fs[p] = File(<<HEADER>> \o ToolOutput(last.args))
                 /\ Headers(fs[p].data) = 1
                 /\ fs[p].data[1] = HEADER
                 /\ IsGetsentry =>
                       /\ last.stage = 2
                       /\ \A i \in StageItems(1) :
                             Dest(work[i].args) = p =>
                                fs[p] # File(<<HEADER>> \o ToolOutput(work[i].args))

\* a getsentry run to a separate directory that returned 0: the frozen
\* file holds the header and the pins of the stage-2 inputs
C11_Witness ==
    /\ IsGetsentry
    /\ arg_outdir = "/out"
    /\ pc = "Done"
    /\ ret = <<0>>
    /\ fs[Path("/out", "requirements-frozen.txt")].data =
          << HEADER,
             "pins of /repo/requirements-base.txt",
             "pins of /repo/sentry-requirements-frozen.txt" >>

\* ------------------------------------------------------------------- C12
\* The number of work items submitted with the argument tuple args.
Submissions(args) ==
    Cardinality({ i \in DOMAIN work : work[i].args = args })

\* C12: no job is submitted twice and none has its tool run twice; and once
\* main has finished, every job that has finished had its tool run once and
\* its result taken by check_futures once, whatever became of its siblings.
C12_ExactlyOnce ==
    /\ \A i \in DOMAIN work :
          /\ Submissions(work[i].args) = 1
          /\ work[i].runs <= 1
          /\ work[i].results <= 1
          /\ work[i].st \in {"stamping", "done"} => work[i].runs = 1
    /\ Ended =>
          \A i \in DOMAIN work :
             work[i].st = "done" => (work[i].runs = 1 /\ work[i].results = 1)

\* ------------------------------------------------------ the command line
\* The process is started from the command line: repo is the first token
\* after the program name and arg_outdir the second (None when absent).
InitCLI ==
    /\ repo \in Repos
    /\ arg_outdir \in Outdirs
    /\ outdir = arg_outdir
    /\ pc = "cli"
    /\ li = 1
    /\ fs \in InitialFiles
    /\ fs0 = fs
    /\ work = << >>
    /\ futures = << >>
    /\ fi = 1
    /\ rc = 0
    /\ ret = << >>
    /\ exc = None
    /\ printed = << >>
    /\ waited = {}
    /\ shut = FALSE

\* parser.add_argument("repo", ...): the positional arguments declared
ParserArgs == <<"repo">>

\* the tokens on the command line after the program name
Argv == IF arg_outdir = None THEN <<repo>> ELSE <<repo, arg_outdir>>

\* args = parser.parse_args(): a token the parser has no argument for makes
\* argparse report "unrecognized arguments" and exit with status 2
CliParse ==
    /\ pc = "cli"
    /\ IF Len(Argv) = Len(ParserArgs)
       THEN pc' = "cli_main" /\ exc' = exc
       ELSE pc' = "Exited" /\ exc' = "SystemExit"
    /\ UNCHANGED << repo, arg_outdir, fs0, outdir, li, fs, work, futures, fi,
                    rc, ret, printed, waited, shut >>

\* def main(repo, outdir): the parameters that have no default
MainParams == <<"repo", "outdir">>

\* main(args.repo): the arguments of the call
CallArgs == <<repo>>

\* raise SystemExit(main(args.repo)): a call with a required argument
\* missing raises TypeError before the body of main runs
CliMain ==
    /\ pc = "cli_main"
    /\ IF Len(CallArgs) = Len(MainParams)
       THEN pc' = "seed" /\ exc' = exc
       ELSE pc' = "Raised" /\ exc' = "TypeError"
    /\ UNCHANGED << repo, arg_outdir, fs0, outdir, li, fs, work, futures, fi,
                    rc, ret, printed, waited, shut >>

\* From the command line the body of main is never entered: the steps of
\* the process are the parsing and the call.
NextCLI ==
    \/ CliParse
    \/ CliMain

SpecCLI == InitCLI /\ [][NextCLI]_vars

\* ------------------------------------------------------------------- C13
\* C13: started with the repo argument alone, the process gets into main
\* with the base path as output path: once past the parsing and the call
\* it has not died of a TypeError, and outdir is None on entry (so that the
\* seeding is skipped and the jobs are submitted).
C13_CommandLine ==
    (arg_outdir = None /\ pc \notin {"cli", "cli_main"})
    => /\ pc # "Raised"
       /\ exc # "TypeError"
       /\ outdir = None

\* ------------------------------------------------------------------- C14
\* C14: no two work items that are being executed have the same output
\* path, and a stage-2 work item leaves the queue only when every stage-1
\* work item has finished its tool and its stamping.
C14_NoSharedOutput ==
    /\ \A i, j \in Executing :
          i # j => Dest(work[i].args) # Dest(work[j].args)
    /\ \A j \in StageItems(2) :
          work[j].st # "queued" =>
             \A i \in StageItems(1) : work[i].st = "done"

\* both stage-2 jobs of a getsentry run are being executed, on the output
\* paths the finished stage-1 jobs wrote
C14_Witness ==
    /\ Cardinality(Executing \cap StageItems(2)) = 2
    /\ \A j \in StageItems(2) :
          \E i \in StageItems(1) :
             Dest(work[i].args) = Dest(work[j].args) /\ work[i].stamped

\* ------------------------------------------------------------------- C15
\* C15: whenever main has finished after the pool was given work,
\* executor.shutdown() has returned and no work item is running or queued.
C15_ShutdownBeforeEnd ==
    (Ended /\ work # << >>)
    => /\ shut
       /\ \A i \in DOMAIN work : work[i].st = "done"

\* ------------------------------------------------------------------- C16
\* The work item a printed report is about.
Reported(r) == CHOOSE i \in DOMAIN work : Report(work[i]) = r

\* C16: the reports are printed in the order their jobs were submitted, and
\* a job's report is printed only when every job submitted before it has
\* finished and had its result taken, whatever the order of completion.
C16_ReportsInSubmissionOrder ==
    /\ \A k, l \in DOMAIN printed :
          k < l => Reported(printed[k]) < Reported(printed[l])
    /\ \A k \in DOMAIN printed :
          /\ \E i \in DOMAIN work : Report(work[i]) = printed[k]
          /\ \A j \in 1..(Reported(printed[k]) - 1) :
                work[j].st = "done" /\ j \in waited

\* two jobs of a stage failed, the later one first; the report of the
\* earlier one was printed first
C16_Witness ==
    /\ Len(printed) = 2
    /\ work[Reported(printed[2])].finished < work[Reported(printed[1])].finished
    /\ work[Reported(printed[1])].stage = work[Reported(printed[2])].stage

\* ------------------------------------------------------------------- C17
\* The steps of the thread that runs main.
MainStep ==
    \/ DefaultOutdir
    \/ SeedCopy
    \/ Submit
    \/ Result
    \/ CheckReturn
    \/ Shutdown
    \/ Return

\* The steps of the worker threads of the pool: taking a work item, and
\* the external tool exiting, and the stamping.
WorkerStep ==
    \E i \in DOMAIN work : Start(i) \/ ToolExit(i) \/ Stamp(i)

\* Every tool invocation exits and the threads are scheduled fairly: the
\* main thread runs when it can, and so do the workers.
LiveSpec == Spec /\ WF_vars(MainStep) /\ WF_vars(WorkerStep)

Overrides ==
    { Path(base_path, "sentry-requirements-frozen.txt"),
      Path(base_path, "sentry-requirements-dev-frozen.txt") }

\* b is a with one override input inserted right before "-o".
OverrideOf(a, b) ==
    /\ Len(b) = Len(a) + 1
    /\ SubSeq(b, 1, Len(a) - 2) = SubSeq(a, 1, Len(a) - 2)
    /\ b[Len(a) - 1] \in Overrides
    /\ a[Len(a) - 1] = "-o"
    /\ b[Len(b) - 1] = "-o"
    /\ b[Len(b)] = a[Len(a)]
    /\ SubSeq(a, 1, Len(base_cmd)) = base_cmd

\* C18: in the getsentry mode every stage-2 job is the stage-1 job on the
\* same output path with one override input inserted right before "-o"
\* (same flags, same inputs in the same order, same last token), the two
\* overrides differ, and once stage 2 is submitted its output paths are
\* exactly those of stage 1.
C18_Stage2IsStage1PlusOverride ==
    /\ \A j \in StageItems(2) :
          \E i \in StageItems(1) : OverrideOf(work[i].args, work[j].args)
    /\ \A j, k \in StageItems(2) :
          j # k => Inputs(work[j].args)[Len(Inputs(work[j].args))]
                      # Inputs(work[k].args)[Len(Inputs(work[k].args))]
    /\ PastSubmit2 =>
          /\ Cardinality(StageItems(2)) = 2
          /\ { Dest(work[j].args) : j \in StageItems(2) }
                = { Dest(work[i].args) : i \in StageItems(1) }

\* both stage-2 jobs of a getsentry run to a separate directory are in the
\* pool, the second with its three inputs
C18_Witness ==
    /\ PastSubmit2
    /\ arg_outdir = "/out"
    /\ Len(work) = 4
    /\ Inputs(work[4].args) =
          << "/repo/requirements-base.txt", "/repo/requirements-dev.txt",
             "/repo/sentry-requirements-dev-frozen.txt" >>
    /\ Dest(work[4].args) = "/out/requirements-dev-frozen.txt"

\* ------------------------------------------------------------------- C19
\* A first invocation main(repo, None) on a base path that holds the input
\* requirement files and no lock file yet.
InitFresh ==
    /\ Init
    /\ arg_outdir = None
    /\ \A n \in LockNames : ~fs[Path(base_path, n)].exists

\* The first invocation returned 0; main is invoked again, with the same
\* repo and a separate output directory, on the files the first one left.
SecondRun ==
    /\ pc = "Done"
    /\ ret = <<0>>
    /\ arg_outdir = None
    /\ arg_outdir' = "/out"
    /\ outdir' = "/out"
    /\ pc' = "seed"
    /\ li' = 1
    /\ fs0' = fs
    /\ work' = << >>
    /\ futures' = << >>
    /\ fi' = 1
    /\ rc' = 0
    /\ ret' = << >>
    /\ exc' = None
    /\ printed' = << >>
    /\ waited' = {}
    /\ shut' = FALSE
    /\ UNCHANGED << repo, fs >>

NextTwoRuns ==
    \/ Next
    \/ SecondRun

SpecTwoRuns == InitFresh /\ [][NextTwoRuns]_vars

\* C19: after a successful run of a mode into the base path, started with no
\* lock file there, a run of the same mode into a separate directory does
\* not end in the seeding loop: no exception escapes main before the first
\* job is submitted.
C19_SeedsWhatTheModeProduced ==
    ~ ( /\ arg_outdir = "/out"
        /\ pc = "Raised"
        /\ work = << >> )

====
